---- MODULE Spec2Model ----
(***************************************************************************)
(* The ODIADEV text-to-speech gateways: the /speak handler of              *)
(* odiadev-render-app.py (generate_tts_cli) and the /api/speak handler of  *)
(* app.py (generate_speech), handled by concurrent request workers that    *)
(* share one file system (the temporary audio files) and one clock; and    *)
(* odiadev-render-app.py as a whole, with its key store and its other      *)
(* endpoints, handling its requests one after another.                     *)
(***************************************************************************)
EXTENDS Integers, Sequences, FiniteSets, TLC

\* Number of requests handled (concurrently, one worker thread each).
NumReq == 2
\* Last millisecond the clock reaches.
MaxClock == 1
\* Number of API keys that can be created.
MaxKeys == 2

Reqs == 1 .. NumReq

----------------------------------------------------------------------------
\* Values

\* Python's None, as a return value or as "no such file".
None == [type |-> "None"]

\* A byte string, by what is read of it: its length and its first bytes.
Bytes(size, head) == [type |-> "bytes", size |-> size, head |-> head]

EmptyBytes   == Bytes(0, <<>>)
ShortSync    == Bytes(10, <<255, 251, 144>>)
LongGarbage  == Bytes(2000, <<60, 104, 116>>)
GoodId3      == Bytes(2000, <<73, 68, 51>>)

\* What the edge-tts process can leave in its --write-media file.
Blobs == {EmptyBytes, ShortSync, LongGarbage, GoodId3}

\* Python truthiness of None / bytes / str.
Truthy(v) == IF v = None THEN FALSE ELSE v.size > 0
TruthyStr(s) == s # ""

\* dict.get(key, default) and request.args.get(key, default).
Get(d, key, default) == IF key \in DOMAIN d THEN d[key] ELSE default

Twice(s) == s \o s
LongText == Twice(Twice(Twice(Twice(Twice(Twice(Twice("Nigeria!")))))))

\* The voice map of odiadev-render-app.py.
VOICES == [female |-> "en-NG-EzinneNeural",
           male   |-> "en-NG-AbeoNeural",
           ezinne |-> "en-NG-EzinneNeural",
           abeo   |-> "en-NG-AbeoNeural",
           lexi   |-> "en-US-AriaNeural",
           atlas  |-> "en-US-GuyNeural"]

\* The voice map of app.py.
APP_VOICES == [female        |-> "en-NG-EzinneNeural",
               male          |-> "en-NG-AbeoNeural",
               ezinne        |-> "en-NG-EzinneNeural",
               abeo          |-> "en-NG-AbeoNeural",
               yoruba_female |-> "en-NG-EzinneNeural",
               yoruba_male   |-> "en-NG-AbeoNeural",
               hausa_female  |-> "en-NG-EzinneNeural",
               hausa_male    |-> "en-NG-AbeoNeural",
               igbo_female   |-> "en-NG-EzinneNeural",
               igbo_male     |-> "en-NG-AbeoNeural"]

\* A voice map read with the male voice as its default.
VoiceIdDefaultMale(map, voice) == Get(map, voice, map["male"])

\* voice_id = VOICES.get(voice, VOICES["female"])
VoiceId(map, voice) == Get(map, voice, map["female"])

\* ADMIN_TOKEN = os.getenv("ADMIN_TOKEN", "odiadev-admin-2025")
ADMIN_TOKEN == "odiadev-admin-2025"

\* secrets.token_hex(8) and secrets.token_hex(32): 16 and 64 hex digits,
\* the n-th value drawn being one no earlier draw gave.
TokenHex8(n)  == Twice(Twice(Twice(Twice(ToString(n)))))
TokenHex32(n) == Twice(Twice(TokenHex8(n)))

\* raw_key = "odiadev_" + secrets.token_hex(32)
RawKey(n) == "odiadev_" \o TokenHex32(n)

\* hashlib.sha256(raw_key.encode()).hexdigest(): a digest that tells the
\* keys apart and does not give the key back.
Sha256(s) == <<"sha256", Len(s), s>>

\* A row of the api_keys table; usage_count takes the column's default.
APIKey(id, name, key_hash, key_prefix) ==
    [id |-> id, name |-> name, key_hash |-> key_hash,
     key_prefix |-> key_prefix, usage_count |-> 0]

----------------------------------------------------------------------------
\* Requests

\* The routes: (endpoint, method).  /speak is odiadev-render-app.py's,
\* /api/speak is app.py's.
Routes == {<<"/speak", "GET">>, <<"/speak", "POST">>, <<"/api/speak", "POST">>}

\* Headers h with one more header.
WithHeader(h, key, v) ==
    [k \in DOMAIN h \cup {key} |-> IF k = key THEN v ELSE h[k]]

EmptyDict == [k \in {} |-> ""]

\* The parameters of a request (query string for GET, JSON object for POST):
\* a dictionary that may lack "text".
ParamSets == {EmptyDict} \cup {[text |-> t] : t \in {"", "Test", LongText}}

\* The headers of a request: x-api-key absent, the test suite's key, or
\* another key.
HeaderSets == {EmptyDict} \cup
              {[k \in {"x-api-key"} |-> v] : v \in {"my_key", "invalid_key"}}

Request(rt, p, h) == [endpoint |-> rt[1], method |-> rt[2], params |-> p, headers |-> h]

\* The test suite's request, GET /speak with a text and the test key.
BaseRequest == Request(<<"/speak", "GET">>, [text |-> "Test"],
                       [k \in {"x-api-key"} |-> "my_key"])

\* The headers of the base request sent to a route: a POST carries its
\* parameters as a JSON body.
HeadersFor(rt) ==
    IF rt[2] = "POST"
    THEN WithHeader(BaseRequest.headers, "Content-Type", "application/json")
    ELSE BaseRequest.headers

\* The requests sent: the base request with its route, its text, its voice
\* or its key replaced, every route with no text or an empty one, a POST
\* whose body is not sent as JSON, and /test-audio.
Requests ==
    {Request(rt, BaseRequest.params, HeadersFor(rt)) : rt \in Routes}
    \cup {Request(<<"/speak", "GET">>, p, BaseRequest.headers) : p \in ParamSets}
    \cup {Request(<<"/speak", "GET">>, BaseRequest.params, h) : h \in HeaderSets}
    \cup {Request(rt, p, HeadersFor(rt)) :
            rt \in Routes, p \in {EmptyDict, [text |-> ""]}}
    \cup {Request(<<"/speak", "GET">>, [text |-> "Test", voice |-> v],
                  BaseRequest.headers) : v \in {"atlas", "bogus"}}
    \cup {Request(<<"/speak", "GET">>, [text |-> ""],
                  [k \in {"x-api-key"} |-> "invalid_key"])}
    \cup {Request(rt, EmptyDict,
                  WithHeader(BaseRequest.headers, "Content-Type", "text/plain")) :
            rt \in {<<"/speak", "POST">>, <<"/api/speak", "POST">>}}
    \cup {Request(<<"/test-audio", "GET">>, EmptyDict, EmptyDict)}

NoRequest == Request(<<"", "">>, EmptyDict, EmptyDict)

\* Temporary file paths: /tmp/temp_audio_<ms>.mp3 and tempfile's tmpXXXX.mp3.
StampPath(t) == <<"temp_audio", t>>
StampPaths == {StampPath(t) : t \in 0 .. MaxClock}
TmpPaths   == {<<"tmp", n>> : n \in Reqs}
Paths      == StampPaths \cup TmpPaths
NoPath     == <<>>

\* Responses
NoResponse == [status |-> 0, ctype |-> "", body |-> None]
JsonError(status, msg) ==
    [status |-> status, ctype |-> "application/json", body |-> [error |-> msg]]
Audio(data) == [status |-> 200, ctype |-> "audio/mpeg", body |-> data]

VARIABLES
    now,         \* int(time.time() * 1000)
    fs,          \* the file system: path -> content, None when absent
    pc,          \* where each request's handler is
    req,         \* the request each worker handles
    text,        \* the handler's local `text`
    voice,       \* the handler's local `voice`
    temp_file,   \* temp_file / temp_path of the synthesis call
    returncode,  \* result.returncode, -1 before the process has exited
    audio_data,  \* audio_data: the bytes read, then the call's return value
    resp,        \* the response sent
    attempts,    \* history: the provider invocations of the request
    running,     \* the edge-tts processes of the request that are alive
    api_keys,    \* the rows of the api_keys table
    reply,       \* the latest answer of /, /health or /api/create-key
    runner       \* test_comprehensive.py: the state of the test run

vars == <<now, fs, pc, req, text, voice, temp_file, returncode, audio_data,
          resp, attempts, running, api_keys, reply, runner>>

\* What the speech handlers read and write, and what the others do.
speakvars == <<now, fs, pc, req, text, voice, temp_file, returncode,
               audio_data, resp, attempts, running>>
keyvars == <<api_keys, reply>>

\* The test run before its first test: results = {'passed': 0, 'failed': 0,
\* 'critical_failures': []}; `history` keeps what test_endpoint returned.
NoRun == [phase |-> "loop", passed |-> 0, failed |-> 0,
          critical_failures |-> <<>>, history |-> <<>>,
          success |-> FALSE, exit |-> -1]

NoReply == [endpoint |-> "", auth |-> "", status |-> 0, body |-> None]

\* The handlers that call generate_tts_cli: speak and test_audio.
IsRender(q) == q.endpoint \in {"/speak", "/test-audio"}

Exists(path) == fs[path] # None

Init ==
    /\ now = 0
    /\ fs = [p \in Paths |-> None]
    /\ pc = [r \in Reqs |-> "idle"]
    /\ req = [r \in Reqs |-> NoRequest]
    /\ text = [r \in Reqs |-> ""]
    /\ voice = [r \in Reqs |-> ""]
    /\ temp_file = [r \in Reqs |-> NoPath]
    /\ returncode = [r \in Reqs |-> -1]
    /\ audio_data = [r \in Reqs |-> None]
    /\ resp = [r \in Reqs |-> NoResponse]
    /\ attempts = [r \in Reqs |-> <<>>]
    /\ running = [r \in Reqs |-> 0]
    /\ api_keys = {}
    /\ reply = NoReply
    /\ runner = NoRun

\* The clock advances.
Tick ==
    /\ now < MaxClock
    /\ now' = now + 1
    /\ UNCHANGED <<fs, pc, req, text, voice, temp_file, returncode, audio_data,
                   resp, attempts, running, api_keys, reply, runner>>

\* A text test that only catches a missing value: `if text is None:`.
NoTextIsNone(t) == FALSE

\* `if not text:` of speak and api_speak.
NoText(t) == ~TruthyStr(t)

\* An answer that tests `if audio_data is not None:`.
SpeakResponseNotNone(data) ==
    IF data # None THEN Audio(data)
    ELSE JsonError(500, "TTS generation failed")

\* `if audio_data:` the audio response, else the 500 of speak / api_speak.
SpeakResponse(data) ==
    IF Truthy(data) THEN Audio(data)
    ELSE JsonError(500, "TTS generation failed")

\* `if audio_data:` the audio response, else the 500 of test_audio.
TestAudioResponse(data) ==
    IF Truthy(data) THEN Audio(data)
    ELSE JsonError(500, "Test audio generation failed")

\* The synthesis function returns `data` to the handler, which answers.
Return(r, data) ==
    /\ audio_data' = [audio_data EXCEPT ![r] = data]
    /\ resp' = [resp EXCEPT ![r] = IF req[r].endpoint = "/test-audio"
                                   THEN TestAudioResponse(data)
                                   ELSE SpeakResponse(data)]
    /\ pc' = [pc EXCEPT ![r] = "done"]

\* The temporary file of a synthesis call that starts now.
\* generate_tts_cli: temp_file = f"/tmp/temp_audio_{timestamp}.mp3", named
\* after the clock, nothing is created.  generate_speech:
\* tempfile.NamedTemporaryFile(suffix='.mp3', delete=False) creates a new,
\* empty file under a name no existing file has.
TempFiles(q) ==
    IF IsRender(q) THEN {StampPath(now)}
    ELSE {p \in TmpPaths : ~Exists(p)}

\* test_audio's text.
test_text == "Welcome to ODIADEV! This is a test of the Nigerian Text-to-Speech system."

\* What `request.get_json()` gives for request q.  A GET's parameters are
\* its query string (no body is read); a body sent as application/json is
\* the JSON object; for any other body the result is the installed
\* Flask's: None (before 2.1), a 400 BadRequest (2.1, 2.2) or a 415
\* UnsupportedMediaType (from 2.3 on) raised out of the handler.
GetJson(q) ==
    IF q.method = "GET" \/ Get(q.headers, "Content-Type", "") = "application/json"
    THEN {"object"}
    ELSE {"None", "BadRequest", "UnsupportedMediaType"}

\* The handler of request q runs up to subprocess.run: speak / api_speak
\* read text and voice from the query string or the JSON body and answer
\* 400 to no text, test_audio takes its own text and "female"; the
\* synthesis function then names its temporary file.
Handle(r, q) ==
    \E j \in GetJson(q) :
    LET data == IF j = "object" THEN q.params ELSE EmptyDict
        t == IF q.endpoint = "/test-audio" THEN test_text
             ELSE Get(data, "text", "")
        v == IF q.endpoint = "/test-audio" THEN "female"
             ELSE Get(data, "voice", "female")
    IN  /\ req' = [req EXCEPT ![r] = q]
        /\ text' = [text EXCEPT ![r] = t]
        /\ voice' = [voice EXCEPT ![r] = v]
        /\ IF j \in {"BadRequest", "UnsupportedMediaType"}
             THEN /\ resp' = [resp EXCEPT ![r] =
                                [status |-> IF j = "BadRequest" THEN 400 ELSE 415,
                                 ctype |-> "text/html", body |-> [error |-> j]]]
                  /\ pc' = [pc EXCEPT ![r] = "done"]
                  /\ UNCHANGED <<fs, temp_file>>
             ELSE IF q.endpoint # "/test-audio" /\ NoText(t)
             THEN /\ resp' = [resp EXCEPT ![r] =
                                JsonError(400, "No text provided")]
                  /\ pc' = [pc EXCEPT ![r] = "done"]
                  /\ UNCHANGED <<fs, temp_file>>
             ELSE /\ \E p \in TempFiles(q) :
                       /\ temp_file' = [temp_file EXCEPT ![r] = p]
                       /\ fs' = IF IsRender(q) THEN fs
                                ELSE [fs EXCEPT ![p] = EmptyBytes]
                  /\ pc' = [pc EXCEPT ![r] = "run"]
                  /\ UNCHANGED resp
        /\ UNCHANGED <<now, returncode, audio_data, attempts, running,
                       api_keys, reply, runner>>

\* A request to /speak or /api/speak arrives at an idle worker.
Speak(r) ==
    /\ pc[r] = "idle"
    /\ \E q \in Requests : Handle(r, q)

\* How one run of the edge-tts process can end, and what it left in its
\* output file (None: it wrote nothing).  A run that fails leaves nothing
\* or a part of the audio.
Outcomes ==
    {[exit |-> "exit0", wrote |-> w] : w \in Blobs \cup {None}}
    \cup {[exit |-> e, wrote |-> w] : e \in {"exit1", "timeout"},
                                      w \in {None, ShortSync}}
    \cup {[exit |-> "oserror", wrote |-> None]}

\* A subprocess.run without a timeout: a process that hangs is waited for
\* without end.
AfterRunNoTimeout(q, o) ==
    IF o.exit \in {"exit0", "exit1"} THEN "check"
    ELSE IF o.exit = "timeout" THEN "hung"
    ELSE IF IsRender(q) THEN "finally" ELSE "except"

\* A timeout that raises nothing: the function continues at the returncode
\* test as after an exit.
AfterRunTimeoutReturns(q, o) ==
    IF o.exit \in {"exit0", "exit1", "timeout"} THEN "check"
    ELSE IF IsRender(q) THEN "finally" ELSE "except"

\* Where the synthesis function continues after subprocess.run: at the
\* returncode test when the process exited, in the handler of the exception
\* otherwise (generate_tts_cli's handlers only return None, through finally).
AfterRun(q, o) ==
    IF o.exit \in {"exit0", "exit1"} THEN "check"
    ELSE IF IsRender(q) THEN "finally" ELSE "except"

\* The record of one subprocess.run of the request: the command line
\* (text, voice id, --write-media path) and how the run ended.
Attempt(r, o) ==
    [provider |-> "edge-tts", exit |-> o.exit, wrote |-> o.wrote,
     text |-> text[r],
     voice_id |-> VoiceId(IF IsRender(req[r]) THEN VOICES ELSE APP_VOICES,
                          voice[r]),
     path |-> temp_file[r]]

\* subprocess.run starts the edge-tts process and waits for it; a process
\* that cannot be started raises at once.
ProcessStart(r) ==
    /\ pc[r] = "run"
    /\ \/ /\ running' = [running EXCEPT ![r] = @ + 1]
          /\ pc' = [pc EXCEPT ![r] = "wait"]
          /\ UNCHANGED attempts
       \/ \E o \in {x \in Outcomes : x.exit = "oserror"} :
            /\ attempts' = [attempts EXCEPT ![r] = Append(@, Attempt(r, o))]
            /\ pc' = [pc EXCEPT ![r] = AfterRun(req[r], o)]
            /\ UNCHANGED running
    /\ UNCHANGED <<now, fs, req, text, voice, temp_file, returncode, audio_data,
                   resp, api_keys, reply, runner>>

\* A subprocess.run that, at its timeout, raises and leaves the process
\* running.
LeftRunning(n, o) == IF o.exit = "timeout" THEN n ELSE n - 1

\* The processes left alive when subprocess.run returns or raises: the
\* process has exited, or was killed and waited for at the timeout.
RunningAfter(n, o) == n - 1

\* subprocess.run(cmd, capture_output=True, text=True, timeout=...) ends:
\* the process has run to its exit, or is killed at the timeout.
ProviderRun(r) ==
    /\ pc[r] = "wait"
    /\ \E o \in {x \in Outcomes : x.exit # "oserror"} :
         /\ fs' = IF o.wrote = None THEN fs
                  ELSE [fs EXCEPT ![temp_file[r]] = o.wrote]
         /\ returncode' = [returncode EXCEPT ![r] =
                             IF o.exit = "exit0" THEN 0
                             ELSE IF o.exit = "exit1" THEN 1 ELSE -1]
         /\ attempts' = [attempts EXCEPT ![r] = Append(@, Attempt(r, o))]
         /\ running' = [running EXCEPT ![r] = RunningAfter(@, o)]
         /\ pc' = [pc EXCEPT ![r] = AfterRun(req[r], o)]
    /\ UNCHANGED <<now, req, text, voice, temp_file, audio_data, resp,
                   api_keys, reply, runner>>

\* `if result.returncode == 0 and os.path.exists(temp_file):`
OutputReady(r) == returncode[r] = 0 /\ Exists(temp_file[r])

\* The returncode test.  Its else branch returns None: generate_tts_cli
\* through its finally, generate_speech directly.
CheckOutput(r) ==
    /\ pc[r] = "check"
    /\ IF OutputReady(r)
         THEN /\ pc' = [pc EXCEPT ![r] = "read"]
              /\ UNCHANGED <<audio_data, resp>>
         ELSE IF IsRender(req[r])
         THEN /\ pc' = [pc EXCEPT ![r] = "finally"]
              /\ UNCHANGED <<audio_data, resp>>
         ELSE Return(r, None)
    /\ UNCHANGED <<now, fs, req, text, voice, temp_file, returncode, attempts>>
    /\ UNCHANGED <<running, api_keys, reply, runner>>

\* A synthesis function that starts the process again once it has read the
\* output.
AfterReadAgain == "run"

\* Where the synthesis function continues once it has read the output: at
\* its clean up and return, never at another subprocess.run.
AfterRead == "cleanup"

\* `with open(temp_file, 'rb') as f: audio_data = f.read()`; a file that is
\* gone by now raises FileNotFoundError into the except clause.
ReadOutput(r) ==
    /\ pc[r] = "read"
    /\ IF Exists(temp_file[r])
         THEN /\ audio_data' = [audio_data EXCEPT ![r] = fs[temp_file[r]]]
              /\ pc' = [pc EXCEPT ![r] = AfterRead]
         ELSE /\ audio_data' = [audio_data EXCEPT ![r] = None]
              /\ pc' = [pc EXCEPT ![r] = IF IsRender(req[r]) THEN "finally"
                                         ELSE "except"]
    /\ UNCHANGED <<now, fs, req, text, voice, temp_file, returncode, resp, attempts>>
    /\ UNCHANGED <<running, api_keys, reply, runner>>

\* The clean up after the read.  generate_tts_cli: os.remove inside
\* try/except-pass, then `return audio_data` through finally.
\* generate_speech: os.unlink, whose FileNotFoundError goes to the except
\* clause, then `return audio_data`.
Cleanup(r) ==
    /\ pc[r] = "cleanup"
    /\ fs' = [fs EXCEPT ![temp_file[r]] = None]
    /\ IF IsRender(req[r])
         THEN /\ pc' = [pc EXCEPT ![r] = "finally"]
              /\ UNCHANGED <<audio_data, resp>>
         ELSE IF Exists(temp_file[r])
         THEN Return(r, audio_data[r])
         ELSE /\ pc' = [pc EXCEPT ![r] = "except"]
              /\ UNCHANGED <<audio_data, resp>>
    /\ UNCHANGED <<now, req, text, voice, temp_file, returncode, attempts>>
    /\ UNCHANGED <<running, api_keys, reply, runner>>

\* generate_speech's `except Exception`: `if os.path.exists(temp_path):`,
\* and `return None` when it does not.
ExceptExists(r) ==
    /\ pc[r] = "except"
    /\ IF Exists(temp_file[r])
         THEN /\ pc' = [pc EXCEPT ![r] = "except_unlink"]
              /\ UNCHANGED <<audio_data, resp>>
         ELSE Return(r, None)
    /\ UNCHANGED <<now, fs, req, text, voice, temp_file, returncode, attempts>>
    /\ UNCHANGED <<running, api_keys, reply, runner>>

\* generate_speech's `os.unlink(temp_path)` in the except clause, then
\* `return None`; unlinking a file that is gone raises out of the handler.
ExceptUnlink(r) ==
    /\ pc[r] = "except_unlink"
    /\ fs' = [fs EXCEPT ![temp_file[r]] = None]
    /\ IF Exists(temp_file[r])
         THEN Return(r, None)
         ELSE /\ pc' = [pc EXCEPT ![r] = "done"]
              /\ resp' = [resp EXCEPT ![r] =
                            [status |-> 500, ctype |-> "text/html",
                             body |-> [error |-> "Internal Server Error"]]]
              /\ UNCHANGED audio_data
    /\ UNCHANGED <<now, req, text, voice, temp_file, returncode, attempts>>
    /\ UNCHANGED <<running, api_keys, reply, runner>>

\* What generate_tts_cli returns: the bytes read when the process exited 0
\* and they were read, None on every other path.
CliResult(r) == audio_data[r]

\* A finally clause that returns without looking at the temporary file.
FinallyNoCleanup(r) ==
    /\ pc[r] = "finally"
    /\ Return(r, CliResult(r))
    /\ UNCHANGED <<now, fs, req, text, voice, temp_file, returncode, attempts>>
    /\ UNCHANGED <<running, api_keys, reply, runner>>

\* generate_tts_cli's `finally: if os.path.exists(temp_file):`, and the
\* return when it does not.
FinallyExists(r) ==
    /\ pc[r] = "finally"
    /\ IF Exists(temp_file[r])
         THEN /\ pc' = [pc EXCEPT ![r] = "finally_remove"]
              /\ UNCHANGED <<audio_data, resp>>
         ELSE Return(r, CliResult(r))
    /\ UNCHANGED <<now, fs, req, text, voice, temp_file, returncode, attempts>>
    /\ UNCHANGED <<running, api_keys, reply, runner>>

\* generate_tts_cli's `try: os.remove(temp_file) except: pass` in finally,
\* then the return.
FinallyRemove(r) ==
    /\ pc[r] = "finally_remove"
    /\ fs' = [fs EXCEPT ![temp_file[r]] = None]
    /\ Return(r, CliResult(r))
    /\ UNCHANGED <<now, req, text, voice, temp_file, returncode, attempts>>
    /\ UNCHANGED <<running, api_keys, reply, runner>>

Next ==
    \/ Tick
    \/ \E r \in Reqs : Speak(r)
    \/ \E r \in Reqs : ProcessStart(r)
    \/ \E r \in Reqs : ProviderRun(r)
    \/ \E r \in Reqs : CheckOutput(r)
    \/ \E r \in Reqs : ReadOutput(r)
    \/ \E r \in Reqs : Cleanup(r)
    \/ \E r \in Reqs : ExceptExists(r)
    \/ \E r \in Reqs : ExceptUnlink(r)
    \/ \E r \in Reqs : FinallyExists(r)
    \/ \E r \in Reqs : FinallyRemove(r)

Spec == Init /\ [][Next]_vars

\* A handler that has started goes on: its thread is scheduled again and
\* again, and the process it waits for exits or is killed at the timeout
\* of subprocess.run.
HandlerStep(r) ==
    \/ ProcessStart(r)
    \/ ProviderRun(r)
    \/ CheckOutput(r)
    \/ ReadOutput(r)
    \/ Cleanup(r)
    \/ ExceptExists(r)
    \/ ExceptUnlink(r)
    \/ FinallyExists(r)
    \/ FinallyRemove(r)

\* The requests whose handling is followed to its end: one with a text to
\* each route.
LiveRequests ==
    {Request(rt, BaseRequest.params, HeadersFor(rt)) : rt \in Routes}

\* One of them arrives at an idle worker.
Receive(r) ==
    /\ pc[r] = "idle"
    /\ \E q \in LiveRequests : Handle(r, q)

LiveNext ==
    \/ Tick
    \/ \E r \in Reqs : Receive(r)
    \/ \E r \in Reqs : HandlerStep(r)

LiveSpec == Init /\ [][LiveNext]_vars /\ \A r \in Reqs : WF_vars(HandlerStep(r))

----------------------------------------------------------------------------
\* odiadev-render-app.py as a whole: its key store and all its endpoints

\* The headers of a create-key request: no Authorization, the admin's, and
\* the admin's token after a scheme in lower case.
AuthHeaders ==
    {EmptyDict} \cup {[k \in {"Authorization"} |-> v] :
                        v \in {"Bearer " \o ADMIN_TOKEN, "bearer " \o ADMIN_TOKEN}}

\* The JSON bodies of a create-key request.
KeyBodies == {EmptyDict, [name |-> "ci"]}

\* The values of the RENDER environment variable that health tells apart.
Environments == {"production", "development"}

\* An admin test that accepts any Authorization header.
AnyAuth(auth) == auth # ""

\* `if auth != f"Bearer {ADMIN_TOKEN}":` is not taken.
IsAdmin(auth) == auth = "Bearer " \o ADMIN_TOKEN

\* A commit that leaves the new row as the only one.
Replace(store, new_key) == {new_key}

\* db.session.add(new_key); db.session.commit()
Commit(store, new_key) == store \cup {new_key}

\* POST /api/create-key.  The n-th key created takes the n-th values of
\* secrets.token_hex.
create_api_key ==
    /\ \E h \in AuthHeaders, data \in KeyBodies :
         LET auth    == Get(h, "Authorization", "")
             name    == Get(data, "name", "API Key")
             n       == Cardinality(api_keys) + 1
             key_id  == TokenHex8(n)
             raw_key == RawKey(n)
             new_key == APIKey(key_id, name, Sha256(raw_key), SubSeq(raw_key, 1, 12))
         IN  IF ~IsAdmin(auth)
             THEN /\ reply' = [endpoint |-> "/api/create-key", auth |-> auth,
                               status |-> 403,
                               body |-> [error |-> "Unauthorized"]]
                  /\ UNCHANGED api_keys
             ELSE /\ n <= MaxKeys
                  /\ api_keys' = Commit(api_keys, new_key)
                  /\ reply' = [endpoint |-> "/api/create-key", auth |-> auth,
                               status |-> 200,
                               body |-> [id |-> key_id, name |-> name,
                                         api_key |-> raw_key,
                                         message |-> "Save this key securely!"]]
    /\ UNCHANGED <<speakvars, runner>>

\* GET /
home ==
    /\ reply' = [endpoint |-> "/", auth |-> "", status |-> 200,
                 body |-> [html |-> "ODIADEV TTS"]]
    /\ UNCHANGED <<speakvars, api_keys, runner>>

\* GET /health
health ==
    /\ \E env \in Environments :
         reply' = [endpoint |-> "/health", auth |-> "", status |-> 200,
                   body |-> [status |-> "ok", service |-> "ODIADEV TTS Platform",
                             voices |-> DOMAIN VOICES, environment |-> env]]
    /\ UNCHANGED <<speakvars, api_keys, runner>>

\* The keys handed out: the raw keys whose digest is in the table.
Issued ==
    {raw \in {RawKey(n) : n \in 1 .. MaxKeys} :
        \E k \in api_keys : k.key_hash = Sha256(raw)}

\* The speech requests sent to the application: /speak with a key that was
\* handed out, and /test-audio.
AppRequests ==
    {Request(<<"/speak", "GET">>, BaseRequest.params, [k \in {"x-api-key"} |-> raw]) :
        raw \in Issued}
    \cup {Request(<<"/test-audio", "GET">>, EmptyDict, EmptyDict)}

\* A speech request arrives while no other is being handled.
speak(r) ==
    /\ pc[r] = "idle"
    /\ \A s \in Reqs : pc[s] \in {"idle", "done"}
    /\ \E q \in AppRequests : Handle(r, q)

\* The requests are handled within one millisecond: the clock stands.
AppNext ==
    \/ create_api_key
    \/ home
    \/ health
    \/ \E r \in Reqs : speak(r)
    \/ \E r \in Reqs : ProcessStart(r)
    \/ \E r \in Reqs : ProviderRun(r)
    \/ \E r \in Reqs : CheckOutput(r)
    \/ \E r \in Reqs : ReadOutput(r)
    \/ \E r \in Reqs : Cleanup(r)
    \/ \E r \in Reqs : FinallyExists(r)
    \/ \E r \in Reqs : FinallyRemove(r)

AppSpec == Init /\ [][AppNext]_vars

----------------------------------------------------------------------------
\* test_comprehensive.py: the test runner

\* The tests of run_comprehensive_test.
tests ==
    << [name |-> "Health Check", endpoint |-> "/health",
        expected_status |-> 200, critical |-> TRUE],
       [name |-> "Real Diagnosis", endpoint |-> "/manus/diagnose",
        expected_status |-> 200, critical |-> TRUE],
       [name |-> "Quick Test Audio", endpoint |-> "/test",
        expected_status |-> 200, critical |-> TRUE],
       [name |-> "TTS Generation (GET)", endpoint |-> "/speak",
        expected_status |-> 200, critical |-> TRUE],
       [name |-> "TTS Generation (POST)", endpoint |-> "/api/speak",
        expected_status |-> 200, critical |-> TRUE],
       [name |-> "Invalid API Key Test", endpoint |-> "/speak",
        expected_status |-> 401, critical |-> FALSE],
       [name |-> "No Text Test", endpoint |-> "/speak",
        expected_status |-> 400, critical |-> FALSE] >>

\* The status codes a server answers with.
StatusCodes == {200, 400, 401, 500}

\* What test_endpoint returns: the status of the response, or no success
\* after a timeout, a refused connection or another exception.
EndpointResults ==
    {[success |-> TRUE, status_code |-> c] : c \in StatusCodes}
    \cup {[success |-> FALSE, status_code |-> 0]}

\* A runner to which every test is critical.
AllCritical(test) == TRUE

\* `if test.get('critical'):`
IsCritical(test) == Get(test, "critical", FALSE)

\* One pass of the `for i, test in enumerate(tests, 1)` loop.
RunTest ==
    /\ runner.phase = "loop"
    /\ Len(runner.history) < Len(tests)
    /\ \E result \in EndpointResults :
         LET test == tests[Len(runner.history) + 1]
             status_ok == result.status_code = test.expected_status
             pass == result.success /\ status_ok
         IN  runner' =
               [runner EXCEPT
                  !.history = Append(@, result),
                  !.passed = IF pass THEN @ + 1 ELSE @,
                  !.failed = IF pass THEN @ ELSE @ + 1,
                  !.critical_failures =
                      IF ~pass /\ IsCritical(test) THEN Append(@, test.name)
                      ELSE @]
    /\ UNCHANGED <<speakvars, api_keys, reply>>

\* The summary: `return False` when results['critical_failures'] is not
\* empty, `return True` otherwise.
Summary ==
    /\ runner.phase = "loop"
    /\ Len(runner.history) = Len(tests)
    /\ runner' = [runner EXCEPT !.phase = "returned",
                                !.success = (runner.critical_failures = <<>>)]
    /\ UNCHANGED <<speakvars, api_keys, reply>>

\* main: `return 0 if success else 1`, the exit status of the script.
main ==
    /\ runner.phase = "returned"
    /\ runner' = [runner EXCEPT !.phase = "exited",
                                !.exit = IF runner.success THEN 0 ELSE 1]
    /\ UNCHANGED <<speakvars, api_keys, reply>>

TestNext ==
    \/ RunTest
    \/ Summary
    \/ main

TestSpec == Init /\ [][TestNext]_vars

----------------------------------------------------------------------------
\* Properties

Done(r) == pc[r] = "done"
Arrived(r) == pc[r] # "idle"
Last(seq) == seq[Len(seq)]

\* The request carries no text where its handler reads one: the parameter
\* is absent or empty (test_audio reads none).
TextMissing(q) ==
    /\ q.endpoint # "/test-audio"
    /\ "text" \notin DOMAIN q.params \/ q.params["text"] = ""

\* An attempt fails by a non-zero exit, a timeout, an exception of
\* subprocess.run, or by leaving no output.
AttemptFailed(a) == a.exit # "exit0" \/ a.wrote = None

\* C1: every /speak and /api/speak request whose text is empty or absent,
\* by GET or by POST, is answered 400 {"error": "No text provided"} and the
\* edge-tts process is never run for it.
C1_NoTextRejected ==
    \A r \in Reqs :
        (Arrived(r) /\ TextMissing(req[r])) =>
            /\ Done(r)
            /\ resp[r] = [status |-> 400, ctype |-> "application/json",
                          body |-> [error |-> "No text provided"]]
            /\ attempts[r] = <<>>

\* Reached: a GET with an empty text and a POST with no text have both
\* been answered.
C1_Witness ==
    \E r1, r2 \in Reqs :
        /\ Done(r1) /\ req[r1].method = "GET" /\ req[r1].params = [text |-> ""]
        /\ Done(r2) /\ req[r2].method = "POST" /\ req[r2].params = EmptyDict
        /\ resp[r1].status = 400 /\ resp[r2].status = 400

\* C2: every request without a valid key (no x-api-key header, or a key
\* that is not an accepted one) is answered 401 and no provider is run for
\* it.  The accepted key is the test suite's, "my_key".
C2_InvalidKeyRejected ==
    \A r \in Reqs :
        (Arrived(r) /\ Get(req[r].headers, "x-api-key", "") \notin {"my_key"}) =>
            /\ attempts[r] = <<>>
            /\ Done(r) => resp[r].status = 401

\* C3: every request whose text is longer than the maximum length (1000
\* characters) is answered 400 and no provider is run for it.
C3_LongTextRejected ==
    \A r \in Reqs :
        (Arrived(r) /\ Len(Get(req[r].params, "text", "")) > 1000) =>
            /\ attempts[r] = <<>>
            /\ Done(r) => resp[r].status = 400

\* C4: a request whose every provider attempt failed is answered 500 with
\* a JSON error body, never 200 and never by an unhandled exception.
C4_AllFailedIs500 ==
    \A r \in Reqs :
        (/\ Done(r)
         /\ attempts[r] # <<>>
         /\ \A i \in 1 .. Len(attempts[r]) : AttemptFailed(attempts[r][i])) =>
            /\ resp[r].status = 500
            /\ resp[r].ctype = "application/json"
            /\ "error" \in DOMAIN resp[r].body

\* C5: a 200 answer of /speak has Content-Type audio/mpeg and, as its body,
\* exactly the bytes that the provider run of the same request wrote.
C5_BodyIsOwnOutput ==
    \A r \in Reqs :
        (Done(r) /\ req[r].endpoint = "/speak" /\ resp[r].status = 200) =>
            /\ resp[r].ctype = "audio/mpeg"
            /\ attempts[r] # <<>>
            /\ resp[r].body = Last(attempts[r]).wrote

\* C6: a body sent with status 200 passes the output validator: it is
\* longer than the minimum (500 bytes) and starts with "ID3" or with an
\* MPEG frame sync (0xFF, then a byte whose top three bits are set).
C6_OnlyValidatedOutput ==
    \A r \in Reqs :
        (Done(r) /\ resp[r].status = 200) =>
            LET b == resp[r].body
            IN  /\ b.size > 500
                /\ \/ b.head = <<73, 68, 51>>
                   \/ Len(b.head) >= 2 /\ b.head[1] = 255 /\ b.head[2] \div 32 = 7

\* C7: a failed attempt is followed by another attempt until the cap of 3
\* attempts, so a provider that succeeds on attempt N <= 3 gives a success:
\* a request is answered after a failed attempt only once 3 were made.
C7_RetriesUntilCap ==
    \A r \in Reqs :
        (Done(r) /\ attempts[r] # <<>> /\ AttemptFailed(Last(attempts[r]))) =>
            Len(attempts[r]) >= 3

\* C8: when the first provider always fails, it is attempted exactly 3
\* times and then the second provider is attempted, whose result is
\* returned.
C8_FallsThroughAfterCap ==
    \A r \in Reqs :
        (/\ Done(r)
         /\ attempts[r] # <<>>
         /\ \A i \in 1 .. Len(attempts[r]) :
               attempts[r][i].provider = "edge-tts" => AttemptFailed(attempts[r][i])) =>
            /\ Cardinality({i \in 1 .. Len(attempts[r]) :
                               attempts[r][i].provider = "edge-tts"}) = 3
            /\ \E i \in 1 .. Len(attempts[r]) : attempts[r][i].provider # "edge-tts"

\* C9: within one request, once an attempt has succeeded (the synthesis
\* call holds the output it read) no further provider attempt is made, at
\* any later step, and the request is answered with exactly that output.
C9_ShortCircuit ==
    \A r \in Reqs :
        Truthy(audio_data[r]) =>
            /\ Len(attempts[r]) = 1
            /\ Done(r) => resp[r] = [status |-> 200, ctype |-> "audio/mpeg",
                                     body |-> audio_data[r]]

\* Reached: a request whose single attempt succeeded has been answered
\* with the audio.
C9_Witness ==
    \E r \in Reqs :
        /\ Done(r) /\ resp[r].status = 200
        /\ Len(attempts[r]) = 1 /\ ~AttemptFailed(attempts[r][1])
        /\ resp[r].body = attempts[r][1].wrote

\* C10: once generate_speech / generate_tts_cli has returned, by whatever
\* path, the temporary file of the call does not exist.
C10_TempFileRemoved ==
    \A r \in Reqs :
        (Done(r) /\ temp_file[r] # NoPath) => ~Exists(temp_file[r])

\* The synthesis call of the request has named its temporary file and has
\* not returned yet.
InFlight(r) == pc[r] \notin {"idle", "done"}

\* C11: no two synthesis calls in flight at the same time use the same
\* temporary file path.
C11_UniqueTempFile ==
    \A r, s \in Reqs :
        (r # s /\ InFlight(r) /\ InFlight(s)) => temp_file[r] # temp_file[s]

\* What the handler answers when the request's own provider run is all
\* that acts on its output file: the bytes the run wrote when it exited 0
\* and they are not empty, the 500 otherwise.
OwnResponse(a) ==
    IF a.exit = "exit0" /\ Truthy(a.wrote)
    THEN [status |-> 200, ctype |-> "audio/mpeg", body |-> a.wrote]
    ELSE [status |-> 500, ctype |-> "application/json",
          body |-> [error |-> "TTS generation failed"]]

\* C12: concurrent /speak requests are independent: the answer of each is
\* the one its own provider run gives, whatever the other request does
\* (none gets the other's audio, none loses its output to the other's
\* clean up).
C12_SpeakIndependent ==
    \A r \in Reqs :
        (Done(r) /\ req[r].endpoint = "/speak" /\ attempts[r] # <<>>) =>
            resp[r] = OwnResponse(attempts[r][1])

\* The request carries the accepted key (the test suite's, "my_key").
KeyAccepted(q) == Get(q.headers, "x-api-key", "") = "my_key"

\* C13: a call passes the key check, then the text check, then the
\* synthesis: the provider is run only for a call with an accepted key and
\* a text, a call whose key is not accepted is answered with the key error
\* (401) whatever its text is, and a call with an accepted key and no text
\* with the text error (400).
C13_KeyThenText ==
    \A r \in Reqs :
        /\ attempts[r] # <<>> => (KeyAccepted(req[r]) /\ ~TextMissing(req[r]))
        /\ (Done(r) /\ ~KeyAccepted(req[r])) => resp[r].status = 401
        /\ (Done(r) /\ KeyAccepted(req[r]) /\ TextMissing(req[r])) =>
               resp[r].status = 400

\* C14: a request has at most one edge-tts process alive, and only while
\* its handler waits inside subprocess.run: when the handler goes on (to
\* its answer, or to any further attempt) the attempt has ended.
C14_OneInFlight ==
    \A r \in Reqs :
        /\ running[r] \in {0, 1}
        /\ running[r] = 1 <=> pc[r] = "wait"

\* Reached: one request waits for its process while the other has gone on
\* after its process was killed at the timeout.
C14_Witness ==
    \E r, s \in Reqs :
        /\ pc[r] = "wait" /\ running[r] = 1
        /\ pc[s] \notin {"idle", "run", "wait"} /\ running[s] = 0
        /\ attempts[s] # <<>> /\ attempts[s][1].exit = "timeout"

\* The voice id the claim gives for a request: the one mapped to its voice
\* when that is a key of the handler's voice map, en-NG-EzinneNeural when
\* the voice is absent or is no key.
ClaimedVoiceId(q) ==
    LET map == IF q.endpoint = "/api/speak" THEN APP_VOICES ELSE VOICES
    IN  IF "voice" \in DOMAIN q.params /\ q.params["voice"] \in DOMAIN map
        THEN map[q.params["voice"]]
        ELSE "en-NG-EzinneNeural"

\* C15: every provider run of a request is given the voice id mapped to
\* the request's voice, or en-NG-EzinneNeural when the voice is absent or
\* unknown; and whatever the voice, a request with a text is never answered
\* without the provider having been run (the voice causes no error answer).
C15_VoiceDefault ==
    \A r \in Reqs :
        /\ \A i \in 1 .. Len(attempts[r]) :
              attempts[r][i].voice_id = ClaimedVoiceId(req[r])
        /\ (Done(r) /\ ~TextMissing(req[r])) =>
              (attempts[r] # <<>> /\ resp[r].status \in {200, 500})

\* Reached: a request with a voice that is no key and one with the voice
\* "atlas" have both been answered with audio, after runs with
\* en-NG-EzinneNeural and en-US-GuyNeural.
C15_Witness ==
    \E r, s \in Reqs :
        /\ Done(r) /\ Get(req[r].params, "voice", "") = "bogus"
        /\ resp[r].status = 200
        /\ attempts[r][1].voice_id = "en-NG-EzinneNeural"
        /\ Done(s) /\ Get(req[s].params, "voice", "") = "atlas"
        /\ resp[s].status = 200
        /\ attempts[s][1].voice_id = "en-US-GuyNeural"

\* C16: nothing is kept from one request to the next: every /speak request
\* with a text, one equal to an earlier answered request included, has the
\* provider run for it and is answered by what that run gives.
C16_NoCache ==
    \A r \in Reqs :
        (Done(r) /\ req[r].endpoint = "/speak" /\ ~TextMissing(req[r])) =>
            /\ attempts[r] # <<>>
            /\ resp[r] = OwnResponse(Last(attempts[r]))

\* Reached: two equal /speak requests, handled one after the other under
\* the same file name, one answered with audio and the other 500.
C16_Witness ==
    \E r, s \in Reqs :
        /\ r # s /\ Done(r) /\ Done(s)
        /\ req[r] = req[s] /\ req[r].endpoint = "/speak"
        /\ temp_file[r] = temp_file[s]
        /\ resp[r].status = 200 /\ resp[s].status = 500
        /\ Len(attempts[r]) = 1 /\ Len(attempts[s]) = 1

\* C17: a 500 answer sent because every provider attempt failed has in its
\* body, beside the error message, a field that points to the diagnostic
\* endpoint.
C17_FailurePointsToDiagnosis ==
    \A r \in Reqs :
        (/\ Done(r) /\ resp[r].status = 500
         /\ attempts[r] # <<>>
         /\ \A i \in 1 .. Len(attempts[r]) : AttemptFailed(attempts[r][i])) =>
            \E f \in DOMAIN resp[r].body : f # "error"

\* C18: the key table changes only in a step that answers 200 to a
\* create-key request whose Authorization is "Bearer odiadev-admin-2025",
\* and a create-key request with any other Authorization is answered 403
\* and leaves the table as it was.
C18_OnlyAdminCreates ==
    [][/\ api_keys' # api_keys =>
            /\ reply'.endpoint = "/api/create-key"
            /\ reply'.auth = "Bearer odiadev-admin-2025"
            /\ reply'.status = 200
            /\ reply' # reply
       /\ (/\ reply' # reply
           /\ reply'.endpoint = "/api/create-key"
           /\ reply'.auth # "Bearer odiadev-admin-2025") =>
            /\ reply'.status = 403
            /\ api_keys' = api_keys]_vars

\* Reached: with one key in the table and a /speak request answered, a
\* create-key request with "bearer" in lower case has been answered 403.
C18_Witness ==
    /\ Cardinality(api_keys) = 1
    /\ reply.endpoint = "/api/create-key" /\ reply.status = 403
    /\ reply.auth = "bearer odiadev-admin-2025"
    /\ \E r \in Reqs : Done(r) /\ req[r].endpoint = "/speak"

\* C19: the usage_count of every key in the table is the number of
\* answered requests that carried that key and a text.
C19_UsageCounted ==
    \A k \in api_keys :
        k.usage_count =
            Cardinality({r \in Reqs :
                /\ Done(r) /\ ~TextMissing(req[r])
                /\ "x-api-key" \in DOMAIN req[r].headers
                /\ Sha256(req[r].headers["x-api-key"]) = k.key_hash})

\* C20: in every step, every row of the key table stays in it with its id
\* and its key hash.
C20_KeysOnlyGrow ==
    [][\A k \in api_keys :
          \E k2 \in api_keys' : k2.id = k.id /\ k2.key_hash = k.key_hash]_vars

\* Reached: two keys are in the table after requests to /speak, to
\* /test-audio and to /health were answered.
C20_Witness ==
    /\ Cardinality(api_keys) = 2
    /\ reply.endpoint = "/health"
    /\ \E r, s \in Reqs :
          /\ Done(r) /\ req[r].endpoint = "/speak"
          /\ Done(s) /\ req[s].endpoint = "/test-audio"

\* C21: every request that has arrived is answered in the end, whether its
\* edge-tts process exits, hangs until the timeout or cannot be started.
C21_EventuallyAnswered ==
    \A r \in Reqs : Arrived(r) ~> Done(r)

\* Reached: a request whose process hung until the timeout and one whose
\* process could not be started have both been answered.
C21_Witness ==
    \E r, s \in Reqs :
        /\ Done(r) /\ attempts[r] # <<>> /\ attempts[r][1].exit = "timeout"
        /\ req[r].endpoint = "/speak" /\ resp[r].status = 500
        /\ Done(s) /\ attempts[s] # <<>> /\ attempts[s][1].exit = "oserror"
        /\ resp[s].status = 500

\* C22: the step in which a request whose process timed out is answered
\* leaves no file under the call's temporary path, and the answer is the
\* failure answer (500), the timeout having been the request's one failed
\* attempt.
C22_TimeoutCleansUp ==
    [][\A r \in Reqs :
          (/\ pc[r] # "done" /\ pc'[r] = "done"
           /\ attempts'[r] # <<>>
           /\ Last(attempts'[r]).exit = "timeout") =>
              /\ fs'[temp_file'[r]] = None
              /\ resp'[r].status = 500
              /\ AttemptFailed(Last(attempts'[r]))]_vars

\* Reached: a /speak and an /api/speak request whose processes were killed
\* at the timeout after writing a part of the audio have been answered 500,
\* with no file left.
C22_Witness ==
    \E r, s \in Reqs :
        /\ Done(r) /\ req[r].endpoint = "/speak"
        /\ Done(s) /\ req[s].endpoint = "/api/speak"
        /\ \A x \in {r, s} :
              /\ Len(attempts[x]) = 1
              /\ attempts[x][1].exit = "timeout"
              /\ attempts[x][1].wrote = ShortSync
              /\ ~Exists(temp_file[x])
              /\ resp[x].status = 500

TextOf(q) == Get(q.params, "text", "")
VoiceOf(q) == Get(q.params, "voice", "female")

\* C24: a GET and a POST to /speak with the same text and voice and the
\* same provider outcomes are answered with the same status and body,
\* after the same provider invocations.
C24_GetPostEquivalent ==
    \A r, s \in Reqs :
        (/\ Done(r) /\ Done(s)
         /\ req[r].endpoint = "/speak" /\ req[r].method = "GET"
         /\ req[s].endpoint = "/speak" /\ req[s].method = "POST"
         /\ TextOf(req[r]) = TextOf(req[s])
         /\ VoiceOf(req[r]) = VoiceOf(req[s])
         /\ Len(attempts[r]) = Len(attempts[s])
         /\ \A i \in 1 .. Len(attempts[r]) :
               /\ attempts[r][i].exit = attempts[s][i].exit
               /\ attempts[r][i].wrote = attempts[s][i].wrote) =>
            /\ resp[r].status = resp[s].status
            /\ resp[r].body = resp[s].body
            /\ \A i \in 1 .. Len(attempts[r]) :
                  /\ attempts[r][i].text = attempts[s][i].text
                  /\ attempts[r][i].voice_id = attempts[s][i].voice_id

\* Test k of the run ended in a transport error or in a status other than
\* the expected one.
Unexpected(k) ==
    \/ ~runner.history[k].success
    \/ runner.history[k].status_code # tests[k].expected_status

\* C25: every test run so far is counted once, as passed or as failed;
\* the runner returns only after the last test, and returns False exactly
\* when a test marked critical ended unexpectedly; main exits 0 exactly
\* when the runner returned True.
C25_RunnerVerdict ==
    LET ran == 1 .. Len(runner.history)
    IN  /\ runner.failed = Cardinality({k \in ran : Unexpected(k)})
        /\ runner.passed + runner.failed = Len(runner.history)
        /\ runner.phase \in {"returned", "exited"} =>
              /\ Len(runner.history) = Len(tests)
              /\ runner.success = FALSE <=>
                    \E k \in ran : tests[k].critical /\ Unexpected(k)
        /\ runner.phase = "exited" =>
              /\ runner.exit \in {0, 1}
              /\ runner.exit = 0 <=> runner.success

\* Reached: the run has exited 0 with every critical test passed and both
\* tests that are not critical failed (a 200 for the invalid key, a
\* transport error for the request with no text).
C25_Witness ==
    /\ runner.phase = "exited" /\ runner.exit = 0
    /\ runner.passed = 5 /\ runner.failed = 2
    /\ runner.history[6] = [success |-> TRUE, status_code |-> 200]
    /\ runner.history[7].success = FALSE

====
